---- MODULE Spec2Model ----
(***************************************************************************)
(* A model of the Aptoide scraper API: the /aptoide endpoint of            *)
(* app/main.py and the lookup-and-normalise pipeline of app/scraper.py.    *)
(*                                                                         *)
(* Python strings are TLA+ strings, read character by character with       *)
(* SubSeq.  JSON values are tagged records (JNull, JInt, JStr, JList,      *)
(* JDict).  A Python call that may raise yields an outcome record: either  *)
(* Ok(v) or Raise(type, msg).                                              *)
(***************************************************************************)
EXTENDS Integers, Sequences, FiniteSets, TLC

VARIABLES
    pc,         \* position of the request in get_aptoide_package
    request,    \* the GET /aptoide request being served
    upstream,   \* what requests.get produced for this request
    calls,      \* the package names sent upstream while serving this request
    resolved,   \* outcome of resolve_app_url
    details,    \* outcome of AptoideScraper.get_app_details
    response,   \* the HTTP response sent to the caller
    text,       \* input string of the pure string functions
    accepted,   \* result of _is_valid_package_name(text)
    count,      \* input of format_downloads
    formatted,  \* result of format_downloads(count)
    cert,       \* result of parse_certificate_info(text)
    conns,      \* per client: its request, its upstream answer, its response
    frames,     \* per call of get_aptoide_package: the values its locals hold
    globals     \* the module-level objects: STATE_TO_ABBR and scraper

vars == <<pc, request, upstream, calls, resolved, details, response,
          text, accepted, count, formatted, cert, conns, frames, globals>>

pipelineVars == <<pc, request, upstream, calls, resolved, details, response>>
pureVars == <<text, accepted, count, formatted, cert>>
serviceVars == <<conns, frames, globals>>

\* schemas.AppDetails: the fields of the response model with their types
AppDetailsSchema ==
    [name |-> "str",
     size |-> "Optional[str]",
     downloads |-> "Optional[str]",
     version |-> "Optional[str]",
     release_date |-> "Optional[str]",
     min_screen |-> "Optional[str]",
     supported_cpu |-> "Optional[str]",
     package_id |-> "str",
     sha1_signature |-> "Optional[str]",
     developer_cn |-> "Optional[str]",
     organization |-> "Optional[str]",
     local |-> "Optional[str]",
     country |-> "Optional[str]",
     state_city |-> "Optional[str]"]

(***************************************************************************)
(* Bounds of the model.                                                    *)
(***************************************************************************)
MaxList == 2        \* longest upstream result list that is enumerated
MaxNameLen == 4     \* longest typed string the validator is enumerated on
Radius == 4         \* counts are taken this far around each anchor
MaxSegs == 3        \* most segments joined into a certificate owner string
MaxClients == 2     \* clients with a request in progress at the same time

(***************************************************************************)
(* Python str operations.                                                  *)
(***************************************************************************)
Char(s, i) == SubSeq(s, i, i)

Lowercase == "abcdefghijklmnopqrstuvwxyz"
Uppercase == "ABCDEFGHIJKLMNOPQRSTUVWXYZ"
Digits == "0123456789"

CharsOf(s) == {Char(s, i) : i \in 1..Len(s)}

LowerSet == CharsOf(Lowercase)
UpperSet == CharsOf(Uppercase)
DigitSet == CharsOf(Digits)

\* str.strip() with no argument removes these (ASCII) whitespace characters.
Whitespace == {" ", "\t", "\n", "\r", "\f"}

LowerOf == [c \in UpperSet |-> Char(Lowercase, CHOOSE i \in 1..26 : Char(Uppercase, i) = c)]

\* c.lower() of one character
LowerChar(c) == IF c \in UpperSet THEN LowerOf[c] ELSE c

\* p in s.lower()
InLower(p, s) ==
    \E i \in 0..(Len(s) - Len(p)) :
        \A k \in 1..Len(p) : LowerChar(Char(s, i + k)) = Char(p, k)

\* p in s
Contains(s, p) == \E i \in 0..(Len(s) - Len(p)) : SubSeq(s, i + 1, i + Len(p)) = p

StartsWith(s, p) == Len(p) <= Len(s) /\ SubSeq(s, 1, Len(p)) = p

RECURSIVE lstrip(_)
lstrip(s) ==
    IF s # "" /\ Char(s, 1) \in Whitespace THEN lstrip(SubSeq(s, 2, Len(s))) ELSE s

RECURSIVE rstrip(_)
rstrip(s) ==
    IF s # "" /\ Char(s, Len(s)) \in Whitespace THEN rstrip(SubSeq(s, 1, Len(s) - 1)) ELSE s

strip(s) == rstrip(lstrip(s))

\* index of the first occurrence of the character c in s, 0 when there is none
Find(s, c) ==
    IF \E i \in 1..Len(s) : Char(s, i) = c
    THEN CHOOSE i \in 1..Len(s) : Char(s, i) = c /\ \A j \in 1..(i - 1) : Char(s, j) # c
    ELSE 0

\* s.split(c): the pieces between the occurrences of c, "" gives <<"">>
RECURSIVE split(_, _)
split(s, c) ==
    LET i == Find(s, c)
    IN IF i = 0 THEN <<s>>
       ELSE <<SubSeq(s, 1, i - 1)>> \o split(SubSeq(s, i + 1, Len(s)), c)

\* s.split(c, 1): at most one split, at the first occurrence of c
split1(s, c) ==
    LET i == Find(s, c)
    IN IF i = 0 THEN <<s>> ELSE <<SubSeq(s, 1, i - 1), SubSeq(s, i + 1, Len(s))>>

\* str(n) of an int
RECURSIVE NatToStr(_)
NatToStr(n) ==
    IF n < 10 THEN Char(Digits, n + 1)
    ELSE NatToStr(n \div 10) \o Char(Digits, (n % 10) + 1)

IntToStr(n) == IF n < 0 THEN "-" \o NatToStr(0 - n) ELSE NatToStr(n)

(***************************************************************************)
(* Outcomes of a call, and the exception classes that matter.              *)
(***************************************************************************)
Ok(v) == [ok |-> TRUE, val |-> v]
Raise(type, msg) == [ok |-> FALSE, exc |-> [type |-> type, msg |-> msg]]

\* isinstance(exc, ValueError): json's and requests' JSONDecodeError both
\* derive from ValueError; requests' HTTPError, ConnectionError and Timeout
\* derive from OSError.
IsValueError(exc) == exc.type \in {"ValueError", "JSONDecodeError"}

\* _is_valid_package_name: re.match of the pattern
\*     ^[a-zA-Z][a-zA-Z0-9_]*(\.[a-zA-Z][a-zA-Z0-9_]*){1,}$
\* as a position matcher.  Positions are 1-based indexes of the next
\* character to read.
IsLetter(c) == c \in LowerSet \cup UpperSet
IsWordChar(c) == IsLetter(c) \/ c \in DigitSet \/ c = "_"

\* positions after a match of [a-zA-Z][a-zA-Z0-9_]* that starts at i
MatchLabel(s, i) ==
    IF i <= Len(s) /\ IsLetter(Char(s, i))
    THEN {j \in (i + 1)..(Len(s) + 1) : \A k \in (i + 1)..(j - 1) : IsWordChar(Char(s, k))}
    ELSE {}

\* positions after one match of \.[a-zA-Z][a-zA-Z0-9_]* from a position of P
MatchDotLabel(s, P) ==
    UNION {IF p <= Len(s) /\ Char(s, p) = "." THEN MatchLabel(s, p + 1) ELSE {} : p \in P}

\* positions after one or more matches of the group, from a position of P
RECURSIVE MatchGroupPlus(_, _, _)
MatchGroupPlus(s, P, acc) ==
    LET Q == MatchDotLabel(s, P)
    IN IF Q \subseteq acc THEN acc ELSE MatchGroupPlus(s, Q, acc \cup Q)

\* $ without re.MULTILINE: the end of the string, or just before a newline
\* that is the last character of the string
MatchEnd(s, j) == j = Len(s) + 1 \/ (j = Len(s) /\ Char(s, j) = "\n")

_is_valid_package_name(package_name) ==
    \E j \in MatchGroupPlus(package_name, MatchLabel(package_name, 1), {}) :
        MatchEnd(package_name, j)

(***************************************************************************)
(* Field formatters.  n / d of two ints is the IEEE double nearest to the  *)
(* quotient, and the format specs .0f and .1f round the exact value of     *)
(* that double to the nearest decimal, ties to even.                       *)
(***************************************************************************)
RECURSIVE BitLength(_)
BitLength(n) == IF n = 0 THEN 0 ELSE 1 + BitLength(n \div 2)

\* Long division of r / d (0 <= r < d) by k more binary digits: the remainder
\* left and the last digit produced.
RECURSIVE DivideBits(_, _, _, _)
DivideBits(r, d, k, last) ==
    IF k = 0 THEN <<r, last>>
    ELSE DivideBits((2 * r) % d, d, k - 1, IF 2 * r >= d THEN 1 ELSE 0)

\* Doubling steps before the first 1 digit of r / d (0 < r < d), that digit
\* included.
RECURSIVE LeadingBits(_, _)
LeadingBits(r, d) == IF 2 * r >= d THEN 1 ELSE 1 + LeadingBits(2 * r, d)

\* The sign of float(n / d) - n / d for ints n >= 0 and d > 0: how the
\* 53-digit significand of the double was rounded.
FloatErrSign(n, d) ==
    LET whole == n \div d
        r0 == n % d
        k == IF whole > 0 THEN 53 - BitLength(whole) ELSE LeadingBits(r0, d) + 52
        end == DivideBits(r0, d, k, whole % 2)
        r == end[1]
    IN IF r0 = 0 \/ r = 0 THEN 0
       ELSE IF 2 * r > d THEN 1
       ELSE IF 2 * r < d THEN -1
       ELSE IF end[2] = 1 THEN 1 ELSE -1

\* f"{n / d:.{places}f}" for ints n >= 0, d > 0 and places in {0, 1}
FormatFixed(n, d, places) ==
    LET scale == IF places = 0 THEN 1 ELSE 10
        whole == n \div d
        digits == ((n % d) * scale) \div d
        rem == ((n % d) * scale) % d
        down == whole * scale + digits
        sign == FloatErrSign(n, d)
        up == \/ 2 * rem > d
              \/ /\ 2 * rem = d
                 /\ IF sign = 0 THEN down % 2 = 1 ELSE sign > 0
        scaled == IF up THEN down + 1 ELSE down
    IN IF places = 0 THEN NatToStr(scaled)
       ELSE NatToStr(scaled \div 10) \o "." \o NatToStr(scaled % 10)

\* variant of format_downloads whose M tier starts above 1,000,000, not at it
format_downloads_mut(downloads) ==
    IF downloads >= 1000000000 THEN FormatFixed(downloads, 1000000000, 0) \o "B"
    ELSE IF downloads > 1000000 THEN FormatFixed(downloads, 1000000, 1) \o "M"
    ELSE IF downloads >= 1000 THEN FormatFixed(downloads, 1000, 1) \o "K"
    ELSE IntToStr(downloads)

format_downloads(downloads) ==
    IF downloads >= 1000000000 THEN FormatFixed(downloads, 1000000000, 0) \o "B"
    ELSE IF downloads >= 1000000 THEN FormatFixed(downloads, 1000000, 1) \o "M"
    ELSE IF downloads >= 1000 THEN FormatFixed(downloads, 1000, 1) \o "K"
    ELSE IntToStr(downloads)

format_size(size_bytes) == FormatFixed(size_bytes, 1024 * 1024, 1) \o " MB"

(***************************************************************************)
(* Certificate parser.                                                     *)
(***************************************************************************)
STATE_TO_ABBR ==
    << <<"Alabama", "AL">>, <<"Alaska", "AK">>, <<"Arizona", "AZ">>, <<"Arkansas", "AR">>,
       <<"California", "CA">>, <<"Colorado", "CO">>, <<"Connecticut", "CT">>, <<"Delaware", "DE">>,
       <<"Florida", "FL">>, <<"Georgia", "GA">>, <<"Hawaii", "HI">>, <<"Idaho", "ID">>,
       <<"Illinois", "IL">>, <<"Indiana", "IN">>, <<"Iowa", "IA">>, <<"Kansas", "KS">>,
       <<"Kentucky", "KY">>, <<"Louisiana", "LA">>, <<"Maine", "ME">>, <<"Maryland", "MD">>,
       <<"Massachusetts", "MA">>, <<"Michigan", "MI">>, <<"Minnesota", "MN">>, <<"Mississippi", "MS">>,
       <<"Missouri", "MO">>, <<"Montana", "MT">>, <<"Nebraska", "NE">>, <<"Nevada", "NV">>,
       <<"New Hampshire", "NH">>, <<"New Jersey", "NJ">>, <<"New Mexico", "NM">>, <<"New York", "NY">>,
       <<"North Carolina", "NC">>, <<"North Dakota", "ND">>, <<"Ohio", "OH">>, <<"Oklahoma", "OK">>,
       <<"Oregon", "OR">>, <<"Pennsylvania", "PA">>, <<"Rhode Island", "RI">>, <<"South Carolina", "SC">>,
       <<"South Dakota", "SD">>, <<"Tennessee", "TN">>, <<"Texas", "TX">>, <<"Utah", "UT">>,
       <<"Vermont", "VT">>, <<"Virginia", "VA">>, <<"Washington", "WA">>, <<"West Virginia", "WV">>,
       <<"Wisconsin", "WI">>, <<"Wyoming", "WY">>, <<"District of Columbia", "DC">> >>

\* value in STATE_TO_ABBR
InStateTable(value) == \E i \in 1..Len(STATE_TO_ABBR) : STATE_TO_ABBR[i][1] = value

\* STATE_TO_ABBR[value]
StateAbbr(value) == STATE_TO_ABBR[CHOOSE i \in 1..Len(STATE_TO_ABBR) : STATE_TO_ABBR[i][1] = value][2]

EmptyCert ==
    [developer_cn |-> "", organization |-> "", local |-> "", country |-> "", state_city |-> ""]

\* variant of CertPart that stores the ST value without the state table
CertPart_mut(result, part) ==
    IF ~Contains(part, "=") THEN result
    ELSE LET i == Find(part, "=")
             key == strip(SubSeq(part, 1, i - 1))
             value == strip(SubSeq(part, i + 1, Len(part)))
         IN IF key = "CN" THEN [result EXCEPT !.developer_cn = value]
            ELSE IF key = "O" THEN [result EXCEPT !.organization = value]
            ELSE IF key = "L" THEN [result EXCEPT !.local = value]
            ELSE IF key = "C" THEN [result EXCEPT !.country = value]
            ELSE IF key = "ST" THEN [result EXCEPT !.state_city = value]
            ELSE result

\* variant of CertPart that keeps the first value a field was given
CertPart_first(result, part) ==
    IF ~Contains(part, "=") THEN result
    ELSE LET kv == split1(part, "=")
             key == strip(kv[1])
             value == strip(kv[2])
         IN IF key = "CN" /\ result.developer_cn = "" THEN [result EXCEPT !.developer_cn = value]
            ELSE IF key = "O" /\ result.organization = "" THEN [result EXCEPT !.organization = value]
            ELSE IF key = "L" /\ result.local = "" THEN [result EXCEPT !.local = value]
            ELSE IF key = "C" /\ result.country = "" THEN [result EXCEPT !.country = value]
            ELSE IF key = "ST" /\ result.state_city = ""
                 THEN IF InStateTable(value)
                      THEN [result EXCEPT !.state_city = StateAbbr(value)]
                      ELSE [result EXCEPT !.state_city = value]
            ELSE result

\* the body of the loop over the parts, for one part
CertPart(result, part) ==
    IF ~Contains(part, "=") THEN result
    ELSE LET kv == split1(part, "=")
             key == strip(kv[1])
             value == strip(kv[2])
         IN IF key = "CN" THEN [result EXCEPT !.developer_cn = value]
            ELSE IF key = "O" THEN [result EXCEPT !.organization = value]
            ELSE IF key = "L" THEN [result EXCEPT !.local = value]
            ELSE IF key = "C" THEN [result EXCEPT !.country = value]
            ELSE IF key = "ST"
                 THEN IF InStateTable(value)
                      THEN [result EXCEPT !.state_city = StateAbbr(value)]
                      ELSE [result EXCEPT !.state_city = value]
            ELSE result

RECURSIVE CertLoop(_, _, _)
CertLoop(result, parts, i) ==
    IF i > Len(parts) THEN result
    ELSE CertLoop(CertPart(result, parts[i]), parts, i + 1)

parse_certificate_info(cert_owner) ==
    LET pieces == split(cert_owner, ",")
        parts == [i \in 1..Len(pieces) |-> strip(pieces[i])]
    IN CertLoop(EmptyCert, parts, 1)

(***************************************************************************)
(* JSON values as json.loads builds them, and the Python operations the    *)
(* code applies to them.  A dict is the sequence of its <<key, value>>     *)
(* items, in order.                                                        *)
(***************************************************************************)
JNull == [t |-> "null"]
JInt(n) == [t |-> "int", int |-> n]
JStr(s) == [t |-> "str", str |-> s]
JList(l) == [t |-> "list", list |-> l]
JDict(items) == [t |-> "dict", items |-> items]

EmptyDict == JDict(<<>>)

\* type(v).__name__
TypeName(v) ==
    CASE v.t = "null" -> "NoneType"
      [] v.t = "int" -> "int"
      [] v.t = "str" -> "str"
      [] v.t = "list" -> "list"
      [] v.t = "dict" -> "dict"

HasKey(v, key) == \E i \in 1..Len(v.items) : v.items[i][1] = key
ValueAt(v, key) == v.items[CHOOSE i \in 1..Len(v.items) : v.items[i][1] = key][2]

\* obj.get(key, default): only a dict has the method
PyGet(obj, key, default) ==
    IF obj.t = "dict"
    THEN Ok(IF HasKey(obj, key) THEN ValueAt(obj, key) ELSE default)
    ELSE Raise("AttributeError", "'" \o TypeName(obj) \o "' object has no attribute 'get'")

\* the items "for app in apps" visits: the elements of a list, the keys of a
\* dict, the characters of a str
PyIter(v) ==
    CASE v.t = "list" -> Ok(v.list)
      [] v.t = "dict" -> Ok([i \in 1..Len(v.items) |-> JStr(v.items[i][1])])
      [] v.t = "str" -> Ok([i \in 1..Len(v.str) |-> JStr(Char(v.str, i))])
      [] OTHER -> Raise("TypeError", "'" \o TypeName(v) \o "' object is not iterable")

\* v == s for a str s
EqualsStr(v, s) == v.t = "str" /\ v.str = s

(***************************************************************************)
(* What requests.get(api_url, timeout=10) produces: an exception when no   *)
(* response arrives, else a response with a status, a reason phrase and a  *)
(* body that is JSON or not.                                               *)
(***************************************************************************)
Failed(exc) == [kind |-> "raise", error |-> exc]
Answered(status, reason) ==
    [kind |-> "response", status |-> status, reason |-> reason, is_json |-> FALSE]
AnsweredJson(body) ==
    [kind |-> "response", status |-> 200, reason |-> "OK", is_json |-> TRUE, body |-> body]

(***************************************************************************)
(* Resolver.                                                               *)
(***************************************************************************)
NotFoundMsg == "App not found on Aptoide"

api_url(package_name) ==
    "https://ws75.aptoide.com/api/7/apps/search?query=" \o package_name \o "&limit=50"

\* Response.raise_for_status(): HTTPError for a 4xx or 5xx status
HTTPErrorMsg(status, reason, url) ==
    IntToStr(status)
        \o (IF status < 500 THEN " Client Error: " ELSE " Server Error: ")
        \o reason \o " for url: " \o url

\* variant of PackageMatches that takes a prefix match for a match
PackageMatches_mut(app, package_name) ==
    LET package == PyGet(app, "package", JNull).val
    IN package.t = "str" /\ StartsWith(package.str, package_name)

\* app.get("package") == package_name
PackageMatches(app, package_name) ==
    EqualsStr(PyGet(app, "package", JNull).val, package_name)

\* variant of ScanApps that returns the first result whatever its package
ScanApps_mut(apps, i, package_name) ==
    IF i > Len(apps) THEN Raise("ValueError", NotFoundMsg)
    ELSE IF ~PyGet(apps[i], "package", JNull).ok THEN PyGet(apps[i], "package", JNull)
    ELSE Ok(apps[i])

\* the for loop and the raise after it
RECURSIVE ScanApps(_, _, _)
ScanApps(apps, i, package_name) ==
    IF i > Len(apps) THEN Raise("ValueError", NotFoundMsg)
    ELSE IF ~PyGet(apps[i], "package", JNull).ok THEN PyGet(apps[i], "package", JNull)
    ELSE IF PackageMatches(apps[i], package_name) THEN Ok(apps[i])
    ELSE ScanApps(apps, i + 1, package_name)

\* the body of the try block
TryBlock(data, package_name) ==
    LET datalist == PyGet(data, "datalist", EmptyDict)
    IN IF ~datalist.ok THEN datalist
       ELSE LET apps == PyGet(datalist.val, "list", JList(<<>>))
            IN IF ~apps.ok THEN apps
               ELSE LET items == PyIter(apps.val)
                    IN IF ~items.ok THEN items
                       ELSE ScanApps(items.val, 1, package_name)

\* the exception classes the except clause of resolve_app_url names
ResolveCaught == {"KeyError", "TypeError"}

resolve_app_url(package_name, reply) ==
    IF reply.kind = "raise" THEN [ok |-> FALSE, exc |-> reply.error]
    ELSE IF reply.status >= 400 /\ reply.status < 600
    THEN Raise("HTTPError", HTTPErrorMsg(reply.status, reply.reason, api_url(package_name)))
    ELSE IF ~reply.is_json
    THEN Raise("JSONDecodeError", "Expecting value: line 1 column 1 (char 0)")
    ELSE LET tried == TryBlock(reply.body, package_name)
         IN IF ~tried.ok /\ tried.exc.type \in ResolveCaught
            THEN Raise("ValueError", NotFoundMsg)
            ELSE tried

(***************************************************************************)
(* Formatter/assembler.                                                    *)
(***************************************************************************)
\* parse_certificate_info(owner): str.split exists on a str only
CertOf(owner) ==
    IF owner.t = "str" THEN Ok(parse_certificate_info(owner.str))
    ELSE Raise("AttributeError",
               "'" \o TypeName(owner) \o "' object has no attribute 'split'")

\* format_size(size): the division is defined on numbers only
SizeOf(size) ==
    IF size.t = "int" THEN Ok(format_size(size.int))
    ELSE Raise("TypeError",
               "unsupported operand type(s) for /: '" \o TypeName(size) \o "' and 'int'")

\* format_downloads(downloads): the comparison is defined on numbers only
DownloadsOf(downloads) ==
    IF downloads.t = "int" THEN Ok(format_downloads(downloads.int))
    ELSE Raise("TypeError",
               "'>=' not supported between instances of '"
                   \o TypeName(downloads) \o "' and 'int'")

\* variant of AppRecord that reads min_screen from the upstream record
AppRecord_mut(app_info, file_info, signature_info, cert_parts, size, downloads) ==
    [name |-> PyGet(app_info, "name", JNull).val,
     size |-> JStr(size),
     downloads |-> JStr(downloads),
     version |-> PyGet(file_info, "vername", JNull).val,
     release_date |-> PyGet(app_info, "updated", JNull).val,
     min_screen |-> PyGet(app_info, "min_screen", JStr("SMALL")).val,
     supported_cpu |-> JStr("arm64-v8a"),
     package_id |-> PyGet(app_info, "package", JNull).val,
     sha1_signature |-> PyGet(signature_info, "sha1", JNull).val,
     developer_cn |-> JStr(cert_parts.developer_cn),
     organization |-> JStr(cert_parts.organization),
     local |-> JStr(cert_parts.local),
     country |-> JStr(cert_parts.country),
     state_city |-> JStr(cert_parts.state_city)]

\* the dict literal that format_app_data returns
AppRecord(app_info, file_info, signature_info, cert_parts, size, downloads) ==
    [name |-> PyGet(app_info, "name", JNull).val,
     size |-> JStr(size),
     downloads |-> JStr(downloads),
     version |-> PyGet(file_info, "vername", JNull).val,
     release_date |-> PyGet(app_info, "updated", JNull).val,
     min_screen |-> JStr("SMALL"),
     supported_cpu |-> JStr("arm64-v8a"),
     package_id |-> PyGet(app_info, "package", JNull).val,
     sha1_signature |-> PyGet(signature_info, "sha1", JNull).val,
     developer_cn |-> JStr(cert_parts.developer_cn),
     organization |-> JStr(cert_parts.organization),
     local |-> JStr(cert_parts.local),
     country |-> JStr(cert_parts.country),
     state_city |-> JStr(cert_parts.state_city)]

\* variant of format_app_data that reads size from the file object
format_app_data_mut(app_info) ==
    LET file_info == PyGet(app_info, "file", EmptyDict)
    IN IF ~file_info.ok THEN file_info ELSE
    LET signature_info == PyGet(file_info.val, "signature", EmptyDict)
    IN IF ~signature_info.ok THEN signature_info ELSE
    LET owner == PyGet(signature_info.val, "owner", JStr(""))
    IN IF ~owner.ok THEN owner ELSE
    LET cert_parts == CertOf(owner.val)
    IN IF ~cert_parts.ok THEN cert_parts ELSE
    LET stats == PyGet(app_info, "stats", EmptyDict)
    IN IF ~stats.ok THEN stats ELSE
    LET downloads == PyGet(stats.val, "downloads", JInt(0))
    IN IF ~downloads.ok THEN downloads ELSE
    LET size == SizeOf(PyGet(file_info.val, "size", JInt(0)).val)
    IN IF ~size.ok THEN size ELSE
    LET shown == DownloadsOf(downloads.val)
    IN IF ~shown.ok THEN shown ELSE
    Ok(AppRecord(app_info, file_info.val, signature_info.val, cert_parts.val,
                 size.val, shown.val))

format_app_data(app_info) ==
    LET file_info == PyGet(app_info, "file", EmptyDict)
    IN IF ~file_info.ok THEN file_info ELSE
    LET signature_info == PyGet(file_info.val, "signature", EmptyDict)
    IN IF ~signature_info.ok THEN signature_info ELSE
    LET owner == PyGet(signature_info.val, "owner", JStr(""))
    IN IF ~owner.ok THEN owner ELSE
    LET cert_parts == CertOf(owner.val)
    IN IF ~cert_parts.ok THEN cert_parts ELSE
    LET stats == PyGet(app_info, "stats", EmptyDict)
    IN IF ~stats.ok THEN stats ELSE
    LET downloads == PyGet(stats.val, "downloads", JInt(0))
    IN IF ~downloads.ok THEN downloads ELSE
    LET size == SizeOf(PyGet(app_info, "size", JInt(0)).val)
    IN IF ~size.ok THEN size ELSE
    LET shown == DownloadsOf(downloads.val)
    IN IF ~shown.ok THEN shown ELSE
    Ok(AppRecord(app_info, file_info.val, signature_info.val, cert_parts.val,
                 size.val, shown.val))

fetch_app_data(package_name, reply) ==
    LET app_info == resolve_app_url(package_name, reply)
    IN IF app_info.ok THEN format_app_data(app_info.val) ELSE app_info

(***************************************************************************)
(* Service facade.                                                         *)
(***************************************************************************)
get_app_details(package_name, reply) ==
    LET got == fetch_app_data(package_name, reply)
    IN IF got.ok THEN got
       ELSE IF IsValueError(got.exc)
       THEN Raise("AptoideScraperException", got.exc.msg)
       ELSE Raise("AptoideScraperException", "Failed to fetch app data: " \o got.exc.msg)

(***************************************************************************)
(* The /aptoide endpoint.                                                  *)
(***************************************************************************)
NoResponse == [status |-> 0]

\* FastAPI answers an HTTPException with the JSON body {"detail": detail}
HTTPException(status_code, detail) ==
    [status |-> status_code, detail |-> detail, media |-> "application/json"]

\* variant of ParamAccepted without min_length
ParamAccepted_mut(req) == req.has_param

\* Query(..., min_length=1): a missing or empty parameter is answered 422 by
\* the framework before the endpoint runs
ParamAccepted(req) == req.has_param /\ Len(req.package_name) >= 1

\* the 422 of the framework's parameter validation
ParamError(req) ==
    HTTPException(422, IF req.has_param
                       THEN "String should have at least 1 character"
                       ELSE "Field required")

\* variant of CheckName without the format check
CheckName_mut(package_name) ==
    IF package_name = "" \/ strip(package_name) = ""
    THEN HTTPException(400, "Package name cannot be empty")
    ELSE NoResponse

\* the two checks at the head of the try block: 0 when both pass
CheckName(package_name) ==
    IF package_name = "" \/ strip(package_name) = ""
    THEN HTTPException(400, "Package name cannot be empty")
    ELSE IF ~_is_valid_package_name(package_name)
    THEN HTTPException(400, "Invalid package name format: '" \o package_name
                                \o "'. Expected format: com.example.app")
    ELSE NoResponse

\* response_model=AppDetails: the record returned by the endpoint is validated
\* against the schema, a str field holding a str and an Optional[str] field a
\* str or None
AppDetails(record) ==
    \A f \in DOMAIN AppDetailsSchema :
        IF AppDetailsSchema[f] = "str"
        THEN record[f].t = "str"
        ELSE record[f].t \in {"str", "null"}

\* The handler registered for Exception builds a JSONResponse, a name that
\* main.py never imports: calling the handler raises NameError.
global_exception_handler(exc) ==
    Raise("NameError", "name 'JSONResponse' is not defined")

\* What the server sends when the application raised: a plain-text 500.
ServerError ==
    [status |-> 500, detail |-> "Internal Server Error", media |-> "text/plain"]

\* An exception that leaves the endpoint and is no HTTPException.
Unhandled(exc) ==
    LET handled == global_exception_handler(exc)
    IN IF handled.ok THEN handled.val ELSE ServerError

\* the except AptoideScraperException clause
ScraperErrorResponse(package_name, exc) ==
    IF InLower("not found", exc.msg)
    THEN HTTPException(404, "App with package name '" \o package_name
                                \o "' not found on Aptoide")
    ELSE HTTPException(500, "Failed to scrape app data: " \o exc.msg)

\* from scraper.get_app_details returning or raising to the response
EndpointResponse(package_name, got) ==
    IF ~got.ok THEN ScraperErrorResponse(package_name, got.exc)
    ELSE IF AppDetails(got.val)
    THEN [status |-> 200, body |-> got.val, media |-> "application/json"]
    ELSE Unhandled([type |-> "ResponseValidationError", msg |-> "response validation"])

(***************************************************************************)
(* The requests and the upstream answers that are enumerated.              *)
(***************************************************************************)
Query(name) == [package_name |-> name, has_param |-> TRUE]

Requests ==
    << [package_name |-> "", has_param |-> FALSE],
       Query(""), Query(" "), Query(" \n"),
       Query("invalid"), Query("com."), Query(".com.test"), Query("com..test"),
       Query("com.what"), Query("com.whatsapp"), Query("com.whatsapp.w4b"),
       Query("com.what\n") >>

WhatsAppOwner == "CN=Brian Acton, O=WhatsApp Inc., L=Santa Clara, ST=California, C=US"

Candidates ==
    << JDict(<< <<"package", JStr("com.whatsapp")>>,
                <<"name", JStr("WhatsApp Messenger")>>,
                <<"size", JInt(157286400)>>,
                <<"stats", JDict(<< <<"downloads", JInt(2000000000)>> >>)>>,
                <<"file", JDict(<< <<"vername", JStr("2.23.1")>>,
                                   <<"signature", JDict(<< <<"sha1", JStr("38:A0:F7")>>,
                                                           <<"owner", JStr(WhatsAppOwner)>> >>)>> >>)>>,
                <<"updated", JStr("2025-09-30 17:06:59")>>,
                <<"min_screen", JStr("LARGE")>> >>),
       JDict(<< <<"package", JStr("com.whatsapp")>>, <<"name", JStr("WhatsApp Clone")>> >>),
       JDict(<< <<"package", JStr("com.whatsapp.w4b")>>,
                <<"name", JStr("WhatsApp Business")>>,
                <<"size", JInt(52428800)>>,
                <<"stats", JDict(<< <<"downloads", JInt(1500000)>> >>)>>,
                <<"file", JDict(<< <<"vername", JStr("2.0")>>,
                                   <<"signature", JDict(<< <<"sha1", JStr("11:22")>> >>)>> >>)>> >>),
       JDict(<< <<"package", JStr("com.what")>>, <<"name", JStr("What")>> >>),
       JDict(<< <<"package", JStr("com.What")>>, <<"name", JStr("Upper")>> >>),
       JDict(<< <<"name", JStr("NoPackage")>> >>),
       JDict(<< <<"package", JNull>>, <<"name", JStr("NullPackage")>> >>),
       JDict(<< <<"package", JStr("com.what")>>, <<"name", JNull>> >>),
       JDict(<< <<"package", JStr("com.whatsapp")>>, <<"name", JStr("NullFile")>>,
                <<"file", JNull>> >>),
       JDict(<< <<"package", JStr("com.whatsapp.w4b")>>, <<"name", JStr("NullSize")>>,
                <<"size", JNull>> >>),
       JDict(<< <<"package", JStr("com.what")>>, <<"name", JStr("")>> >>),
       JDict(<< <<"package", JStr("com.whatsapp.w4b")>>, <<"name", JStr("NestedSize")>>,
                <<"file", JDict(<< <<"size", JInt(157286400)>> >>)>> >>),
       JDict(<< <<"package", JStr("com.what")>>, <<"name", JStr("TwoSizes")>>,
                <<"size", JInt(52428800)>>,
                <<"file", JDict(<< <<"size", JInt(157286400)>> >>)>> >>) >>

\* the body {"datalist": {"list": list}}
ResultBody(list) == JDict(<< <<"datalist", JDict(<< <<"list", list>> >>)>> >>)

\* JSON bodies that hold no list of records at datalist.list
OddBodies ==
    << EmptyDict,
       JDict(<< <<"info", JDict(<< <<"status", JStr("FAIL")>> >>)>> >>),
       JDict(<< <<"datalist", EmptyDict>> >>),
       JDict(<< <<"datalist", JNull>> >>),
       JDict(<< <<"datalist", JList(<<>>)>> >>),
       JDict(<< <<"datalist", JStr("none")>> >>),
       ResultBody(JNull),
       ResultBody(JInt(0)),
       ResultBody(JStr("")),
       ResultBody(JStr("com.what")),
       ResultBody(EmptyDict),
       ResultBody(JDict(<< <<"package", JStr("com.what")>> >>)),
       ResultBody(JList(<<JNull>>)),
       ResultBody(JList(<<JStr("com.what")>>)),
       ResultBody(JList(<<JInt(7)>>)),
       ResultBody(JList(<<JList(<<>>)>>)),
       ResultBody(JList(<<Candidates[4], JNull>>)),
       JNull,
       JList(<<>>),
       JStr("error"),
       JInt(0) >>

\* what requests.get raises when no response arrives
Failures ==
    << [type |-> "ConnectionError",
        msg |-> "HTTPSConnectionPool(host='ws75.aptoide.com', port=443): Max retries exceeded (Caused by NameResolutionError: Failed to resolve 'ws75.aptoide.com')"],
       [type |-> "ConnectTimeout",
        msg |-> "HTTPSConnectionPool(host='ws75.aptoide.com', port=443): Max retries exceeded (Caused by ConnectTimeoutError: Connection to ws75.aptoide.com timed out. (connect timeout=10))"],
       [type |-> "ReadTimeout",
        msg |-> "HTTPSConnectionPool(host='ws75.aptoide.com', port=443): Read timed out. (read timeout=10)"] >>

\* non-success statuses with their standard reason phrases
ErrorStatuses ==
    << <<400, "Bad Request">>, <<403, "Forbidden">>, <<404, "Not Found">>,
       <<429, "Too Many Requests">>, <<500, "Internal Server Error">>,
       <<502, "Bad Gateway">>, <<503, "Service Unavailable">> >>

\* success statuses whose body r.json() cannot parse: an HTML page, no body
NotJsonStatuses == << <<200, "OK">>, <<204, "No Content">> >>

None == [kind |-> "none"]

(***************************************************************************)
(* One request through get_aptoide_package.                                *)
(***************************************************************************)
PureIdle ==
    /\ text = ""
    /\ accepted = FALSE
    /\ count = 0
    /\ formatted = ""
    /\ cert = EmptyCert

PipelineIdle ==
    /\ pc = "idle"
    /\ request = None
    /\ upstream = None
    /\ calls = <<>>
    /\ resolved = None
    /\ details = None
    /\ response = NoResponse

Clients == 1..MaxClients

\* a client with no request in progress
Quiet == [pc |-> "idle", request |-> None, upstream |-> None, response |-> NoResponse]

\* the locals of a call that has not started
NoFrame == [request |-> None, upstream |-> None]

\* the module-level objects after import: the state table as written, and
\* the AptoideScraper instance, which has no attributes
ModuleGlobals == [STATE_TO_ABBR |-> STATE_TO_ABBR, scraper |-> <<>>]

ServiceIdle ==
    /\ conns = [i \in Clients |-> Quiet]
    /\ frames = [i \in Clients |-> NoFrame]
    /\ globals = ModuleGlobals

Init == PipelineIdle /\ PureIdle /\ ServiceIdle

\* a client sends GET /aptoide
Receive ==
    /\ pc = "idle"
    /\ \E i \in 1..Len(Requests) : request' = Requests[i]
    /\ pc' = "params"
    /\ UNCHANGED <<upstream, calls, resolved, details, response>>
    /\ UNCHANGED pureVars
    /\ UNCHANGED serviceVars

\* the framework's validation of the query parameter fails
RejectParam ==
    /\ pc = "params"
    /\ ~ParamAccepted(request)
    /\ response' = ParamError(request)
    /\ pc' = "done"
    /\ UNCHANGED <<request, upstream, calls, resolved, details>>
    /\ UNCHANGED pureVars
    /\ UNCHANGED serviceVars

\* the endpoint runs and one of its two checks of the name raises
RejectName ==
    /\ pc = "params"
    /\ ParamAccepted(request)
    /\ CheckName(request.package_name) # NoResponse
    /\ response' = CheckName(request.package_name)
    /\ pc' = "done"
    /\ UNCHANGED <<request, upstream, calls, resolved, details>>
    /\ UNCHANGED pureVars
    /\ UNCHANGED serviceVars

\* the endpoint runs and the name passes both checks
AcceptName ==
    /\ pc = "params"
    /\ ParamAccepted(request)
    /\ CheckName(request.package_name) = NoResponse
    /\ pc' = "fetch"
    /\ UNCHANGED <<request, upstream, calls, resolved, details, response>>
    /\ UNCHANGED pureVars
    /\ UNCHANGED serviceVars

\* variant of Called that repeats the call once, as a retry would
Called_mut ==
    /\ pc = "fetch"
    /\ calls' = calls \o <<request.package_name, request.package_name>>
    /\ pc' = "scrape"
    /\ UNCHANGED <<request, resolved, details, response>>
    /\ UNCHANGED pureVars
    /\ UNCHANGED serviceVars

\* requests.get(api_url, timeout=10) was called: the one network call
Called ==
    /\ pc = "fetch"
    /\ calls' = Append(calls, request.package_name)
    /\ pc' = "scrape"
    /\ UNCHANGED <<request, resolved, details, response>>
    /\ UNCHANGED pureVars
    /\ UNCHANGED serviceVars

\* no response arrives: connection failure or timeout
UpstreamFails ==
    /\ \E i \in 1..Len(Failures) : upstream' = Failed(Failures[i])
    /\ Called

\* a response with a 4xx or 5xx status arrives
UpstreamErrorStatus ==
    /\ \E i \in 1..Len(ErrorStatuses) :
           upstream' = Answered(ErrorStatuses[i][1], ErrorStatuses[i][2])
    /\ Called

\* a success response arrives whose body is not JSON
UpstreamNotJson ==
    /\ \E i \in 1..Len(NotJsonStatuses) :
           upstream' = Answered(NotJsonStatuses[i][1], NotJsonStatuses[i][2])
    /\ Called

\* a JSON body arrives that holds no list of records at datalist.list
UpstreamOddBody ==
    /\ \E i \in 1..Len(OddBodies) : upstream' = AnsweredJson(OddBodies[i])
    /\ Called

\* a JSON body arrives with a result list of up to MaxList candidates
UpstreamResults ==
    /\ \E n \in 0..MaxList :
           \E pick \in [1..n -> 1..Len(Candidates)] :
               upstream' = AnsweredJson(ResultBody(JList([k \in 1..n |-> Candidates[pick[k]]])))
    /\ Called

\* the rest of scraper.get_app_details, after the network call
Scrape ==
    /\ pc = "scrape"
    /\ resolved' = resolve_app_url(request.package_name, upstream)
    /\ details' = get_app_details(request.package_name, upstream)
    /\ pc' = "respond"
    /\ UNCHANGED <<request, upstream, calls, response>>
    /\ UNCHANGED pureVars
    /\ UNCHANGED serviceVars

\* the endpoint returns or raises, and the response is sent
Respond ==
    /\ pc = "respond"
    /\ response' = EndpointResponse(request.package_name, details)
    /\ pc' = "done"
    /\ UNCHANGED <<request, upstream, calls, resolved, details>>
    /\ UNCHANGED pureVars
    /\ UNCHANGED serviceVars

\* the request is over: nothing of it is kept
Finish ==
    /\ pc = "done"
    /\ pc' = "idle"
    /\ request' = None
    /\ upstream' = None
    /\ calls' = <<>>
    /\ resolved' = None
    /\ details' = None
    /\ response' = NoResponse
    /\ UNCHANGED pureVars
    /\ UNCHANGED serviceVars

Next ==
    \/ Receive
    \/ RejectParam
    \/ RejectName
    \/ AcceptName
    \/ UpstreamFails
    \/ UpstreamErrorStatus
    \/ UpstreamNotJson
    \/ UpstreamOddBody
    \/ UpstreamResults
    \/ Scrape
    \/ Respond
    \/ Finish

Spec == Init /\ [][Next]_vars

(***************************************************************************)
(* Properties of the request pipeline (specification Spec).                *)
(***************************************************************************)
Scraped == pc \in {"respond", "done"} /\ upstream # None

\* the upstream answer is a JSON body
HoldsJson(reply) == reply.kind = "response" /\ reply.status < 400 /\ reply.is_json

\* the JSON body holds a list of records at datalist.list
HoldsRecordList(reply) ==
    /\ HoldsJson(reply)
    /\ reply.body.t = "dict"
    /\ HasKey(reply.body, "datalist")
    /\ ValueAt(reply.body, "datalist").t = "dict"
    /\ HasKey(ValueAt(reply.body, "datalist"), "list")
    /\ ValueAt(ValueAt(reply.body, "datalist"), "list").t = "list"
    /\ LET L == ValueAt(ValueAt(reply.body, "datalist"), "list").list
       IN \A i \in 1..Len(L) : L[i].t = "dict"

ResultList(reply) == ValueAt(ValueAt(reply.body, "datalist"), "list").list

\* the package field of a candidate record is exactly the string q
HasPackage(app, q) ==
    /\ HasKey(app, "package")
    /\ ValueAt(app, "package").t = "str"
    /\ ValueAt(app, "package").str = q

\* the Resolver reported NotFound
ResolverNotFound == ~resolved.ok /\ resolved.exc = [type |-> "ValueError", msg |-> NotFoundMsg]

\* C1: for every requested name Q and every upstream result list L of
\* candidate records, resolve returns the first element of L whose package
\* equals Q exactly, and fails with NotFound "App not found on Aptoide"
\* exactly when L has no such element.
ResolveReturnsFirstExactMatch ==
    (Scraped /\ HoldsRecordList(upstream)) =>
        LET L == ResultList(upstream)
            Q == request.package_name
            M == {i \in 1..Len(L) : HasPackage(L[i], Q)}
        IN IF M = {}
           THEN ResolverNotFound
           ELSE /\ resolved.ok
                /\ resolved.val = L[CHOOSE i \in M : \A j \in M : i <= j]
                /\ HasPackage(resolved.val, Q)

\* a list whose first element has a package that Q only is a prefix of, and
\* whose second element is the exact match that resolve returned
ResolveSkippedPartialMatch ==
    /\ Scraped
    /\ HoldsRecordList(upstream)
    /\ Len(ResultList(upstream)) = 2
    /\ HasPackage(ResultList(upstream)[1], "com.whatsapp.w4b")
    /\ request.package_name = "com.what"
    /\ resolved.ok
    /\ resolved.val = ResultList(upstream)[2]

\* C2: in every 200 response the package_id of the record equals the
\* requested package_name exactly.
PackageIdIsRequestedName ==
    response.status = 200 =>
        /\ response.body.package_id.t = "str"
        /\ response.body.package_id.str = request.package_name

\* a 200 response for a list whose first element is another package
OkAfterOtherPackage ==
    /\ response.status = 200
    /\ HoldsRecordList(upstream)
    /\ Len(ResultList(upstream)) = 2
    /\ ~HasPackage(ResultList(upstream)[1], request.package_name)
    /\ HasKey(ResultList(upstream)[1], "package")

\* C3 as claimed: for a well-formed name the status is 404 exactly when the
\* Resolver found no exact match, and 500 for every other failure, every
\* upstream transport failure included.
NotFoundOnlyWhenNoMatch ==
    (pc = "done" /\ calls # <<>>) =>
        /\ response.status = 404 <=> ResolverNotFound
        /\ (response.status # 200 /\ ~ResolverNotFound) => response.status = 500

\* C4 as claimed: a non-empty name that fails the format validation is
\* answered 400 with a detail mentioning the format, and no upstream call is
\* made for it.
RejectedNamesGetFormatDetail ==
    (pc = "done" /\ request.has_param /\ request.package_name # ""
         /\ ~_is_valid_package_name(request.package_name)) =>
        /\ response.status = 400
        /\ InLower("format", response.detail)
        /\ calls = <<>>

\* C4 as amended: a non-empty name that fails the format validation is
\* answered 400 and no upstream call is ever made for it; the detail mentions
\* the format unless the name is only whitespace, where the detail is
\* "Package name cannot be empty".  In every state, a name that reached the
\* Resolver has passed both checks.
RejectedNamesNeverReachResolver ==
    /\ (calls # <<>> \/ upstream # None) =>
           /\ request.has_param
           /\ strip(request.package_name) # ""
           /\ _is_valid_package_name(request.package_name)
           /\ calls = <<request.package_name>>
    /\ (pc = "done" /\ request.has_param /\ request.package_name # ""
            /\ ~_is_valid_package_name(request.package_name)) =>
           /\ response.status = 400
           /\ calls = <<>>
           /\ upstream = None
           /\ IF strip(request.package_name) = ""
              THEN response.detail = "Package name cannot be empty"
              ELSE InLower("format", response.detail)

\* a name with an empty segment was answered 400 without an upstream call
MalformedNameRejected ==
    /\ pc = "done"
    /\ request.package_name = "com..test"
    /\ response.status = 400
    /\ calls = <<>>

\* C6 as claimed: get_app_details fails only with the scraper's exception,
\* whose message is the Resolver's NotFound message (only when no exact match
\* exists) or else "Failed to fetch app data: " followed by the cause.
FacadeWrapsOtherFailures ==
    (Scraped /\ ~details.ok) =>
        /\ details.exc.type = "AptoideScraperException"
        /\ IF ResolverNotFound
           THEN details.exc.msg = NotFoundMsg
           ELSE StartsWith(details.exc.msg, "Failed to fetch app data: ")

\* C7 as claimed: when the upstream call succeeds and the parsed body holds no
\* result list of records at datalist.list, resolve fails with NotFound and
\* with no other failure.
MalformedBodyIsNotFound ==
    (Scraped /\ HoldsJson(upstream) /\ ~HoldsRecordList(upstream)) => ResolverNotFound

\* C10: every 200 response is a flat record with exactly the 14 keys, with
\* min_screen "SMALL" and supported_cpu "arm64-v8a" whatever the candidate
\* contains.
OkResponseHasFixedShape ==
    response.status = 200 =>
        /\ DOMAIN response.body =
               {"name", "size", "downloads", "version", "release_date", "min_screen",
                "supported_cpu", "package_id", "sha1_signature", "developer_cn",
                "organization", "local", "country", "state_city"}
        /\ \A f \in DOMAIN response.body : response.body[f].t \in {"str", "null"}
        /\ response.body.min_screen = JStr("SMALL")
        /\ response.body.supported_cpu = JStr("arm64-v8a")

\* a 200 response for a candidate that carries its own min_screen
OkForCandidateWithMinScreen ==
    /\ response.status = 200
    /\ resolved.ok
    /\ HasKey(resolved.val, "min_screen")
    /\ ValueAt(resolved.val, "min_screen") = JStr("LARGE")

\* C11 as claimed: in every record returned with status 200, name and
\* package_id are present and are non-empty strings, whatever the matching
\* candidate holds as its name (absent, null or the empty string included).
OkRecordNamesNonEmpty ==
    (pc = "done" /\ response.status = 200) =>
        /\ response.body.name.t = "str"
        /\ response.body.name.str # ""
        /\ response.body.package_id.t = "str"
        /\ response.body.package_id.str # ""

\* the name passed the parameter validation and both checks of the endpoint
NameValidated == ParamAccepted(request) /\ CheckName(request.package_name) = NoResponse

\* C12: each lookup performs at most one upstream call: none before the name
\* is validated and none for a rejected name, exactly one for a validated
\* name, and no further call after that call failed or was answered.
OneUpstreamCallPerLookup ==
    /\ Len(calls) <= 1
    /\ pc \in {"idle", "params", "fetch"} => calls = <<>>
    /\ pc \in {"scrape", "respond"} => calls = <<request.package_name>>
    /\ pc = "done" => calls = IF NameValidated THEN <<request.package_name>> ELSE <<>>

\* the one call got no response and the lookup failed with that one call made
FailedCallNotRetried ==
    /\ pc = "done"
    /\ upstream.kind = "raise"
    /\ calls = <<request.package_name>>
    /\ response.status = 500

NumberAt(app, key) ==
    IF app.t = "dict" /\ HasKey(app, key) /\ ValueAt(app, key).t = "int"
    THEN ValueAt(app, key).int
    ELSE 0

\* the record found at key of a record, an empty record when there is none
RecordAt(app, key) ==
    IF app.t = "dict" /\ HasKey(app, key) THEN ValueAt(app, key) ELSE EmptyDict

\* C15 as claimed: the size of the 200 record is format_size applied to the
\* candidate's file.size, 0 when that value is absent, so a candidate with
\* file.size = 157286400 produces "150.0 MB".
SizeFromFileSize ==
    (pc = "done" /\ response.status = 200) =>
        /\ response.body.size = JStr(format_size(NumberAt(RecordAt(resolved.val, "file"), "size")))
        /\ NumberAt(RecordAt(resolved.val, "file"), "size") = 157286400 =>
               response.body.size = JStr("150.0 MB")

\* C15 amended: the size of the 200 record is format_size applied to the
\* candidate's top-level size, 0 when the candidate has no size key, whatever
\* file.size holds; a candidate with size = 157286400 produces "150.0 MB".
SizeFromTopLevelSize ==
    (pc = "done" /\ response.status = 200) =>
        /\ response.body.size = JStr(format_size(NumberAt(resolved.val, "size")))
        /\ NumberAt(resolved.val, "size") = 157286400 => response.body.size = JStr("150.0 MB")
        /\ ~HasKey(resolved.val, "size") => response.body.size = JStr("0.0 MB")

\* a candidate with a top-level size of 50 MB and a file.size of 150 MB was
\* returned with size "50.0 MB"
TopLevelSizeShown ==
    /\ pc = "done"
    /\ response.status = 200
    /\ NumberAt(resolved.val, "size") = 52428800
    /\ NumberAt(RecordAt(resolved.val, "file"), "size") = 157286400
    /\ response.body.size = JStr("50.0 MB")

\* C16 as claimed: assemble never fails on missing data: for every matching
\* candidate in which any of file, file.signature, file.signature.owner,
\* file.signature.sha1, file.vername, stats, stats.downloads, size or
\* updated is absent (key missing or value null) the lookup succeeds.
MissingDataNeverFails ==
    (pc = "done" /\ NameValidated /\ resolved.ok
        /\ HasKey(resolved.val, "name") /\ ValueAt(resolved.val, "name").t = "str") =>
        /\ details.ok
        /\ response.status = 200

\* C17 as claimed: every failure of a request is answered with one HTTP
\* error response with a JSON body; a record that the response model rejects
\* is answered by the global exception handler with status 500 and the JSON
\* body {error: "Internal server error", detail: "An unexpected error occurred"}.
FailuresAnsweredAsJson ==
    pc = "done" =>
        /\ response.status # 200 =>
               response.status >= 400 /\ response.media = "application/json"
        /\ (NameValidated /\ details.ok /\ ~AppDetails(details.val)) =>
               /\ response.status = 500
               /\ response.media = "application/json"
               /\ response.detail = "An unexpected error occurred"

(***************************************************************************)
(* The package-name validator on its own (specification SpecNames): names  *)
(* are typed character by character, or taken from the examples of the     *)
(* tests.                                                                  *)
(***************************************************************************)
NameAlphabet == <<"a", "Z", "7", "_", ".", "-", " ", "\n">>

NameExamples ==
    <<"com.whatsapp", "com.facebook.katana", "invalid", "test", "com.", ".com.test",
      "com..test", "com.whatsapp\n">>

TypeChar ==
    /\ Len(text) < MaxNameLen
    /\ \E i \in 1..Len(NameAlphabet) : text' = text \o NameAlphabet[i]
    /\ accepted' = _is_valid_package_name(text')
    /\ UNCHANGED <<count, formatted, cert>>
    /\ UNCHANGED pipelineVars
    /\ UNCHANGED serviceVars

TakeExample ==
    /\ \E i \in 1..Len(NameExamples) : text' = NameExamples[i]
    /\ accepted' = _is_valid_package_name(text')
    /\ UNCHANGED <<count, formatted, cert>>
    /\ UNCHANGED pipelineVars
    /\ UNCHANGED serviceVars

NextNames == TypeChar \/ TakeExample

SpecNames == Init /\ [][NextNames]_vars

\* a segment: a letter, then letters, digits and underscores only
WellFormedSegment(seg) ==
    /\ Len(seg) >= 1
    /\ IsLetter(Char(seg, 1))
    /\ \A k \in 2..Len(seg) : IsLetter(Char(seg, k)) \/ Char(seg, k) \in DigitSet \/ Char(seg, k) = "_"

\* at least two dot-separated segments, and nothing else in the string
WellFormedName(s) ==
    LET segs == split(s, ".")
    IN Len(segs) >= 2 /\ \A i \in 1..Len(segs) : WellFormedSegment(segs[i])

\* C5 as claimed: the validator accepts a string if and only if it consists of
\* at least two dot-separated segments, each a letter followed by letters,
\* digits and underscores, with no other character anywhere in the string; it
\* accepts com.whatsapp and com.facebook.katana and rejects invalid, com.,
\* .com.test and com..test.
ValidatorAcceptsExactlyWellFormed ==
    /\ accepted = WellFormedName(text)
    /\ text \in {"com.whatsapp", "com.facebook.katana"} => accepted
    /\ text \in {"invalid", "com.", ".com.test", "com..test"} => ~accepted

(***************************************************************************)
(* format_downloads on its own (specification SpecDownloads): counts near  *)
(* the tier boundaries and near the decimal ties.                          *)
(***************************************************************************)
CountAnchors ==
    <<Radius, 500, 1000, 1050, 1250, 99950, 999950, 1000000, 1050000, 1250000,
      999950000, 1000000000, 1500000000, 2000000000>>

FormatCount ==
    /\ \E i \in 1..Len(CountAnchors) :
           \E d \in (0 - Radius)..Radius : count' = CountAnchors[i] + d
    /\ formatted' = format_downloads(count')
    /\ UNCHANGED <<text, accepted, cert>>
    /\ UNCHANGED pipelineVars
    /\ UNCHANGED serviceVars

NextDownloads == FormatCount

SpecDownloads == Init /\ [][NextDownloads]_vars

\* digits of k tenths with one decimal
OneDecimal(k) == NatToStr(k \div 10) \o "." \o NatToStr(k % 10)

\* k units of size unit are a nearest rounding of c
NearestUnits(c, k, unit) ==
    (IF c >= k * unit THEN 2 * (c - k * unit) ELSE 2 * (k * unit - c)) <= unit

\* C8: format_downloads picks the first tier the count qualifies for: from
\* 1,000,000,000 the count over 1e9 with 0 decimals and "B"; else from
\* 1,000,000 the count over 1e6 with 1 decimal and "M"; else from 1,000 the
\* count over 1e3 with 1 decimal and "K"; else the plain integer.  999 gives
\* "999", 1000 "1.0K", 999999 "1000.0K", 1000000 "1.0M", 1000000000 "1B".
DownloadsUseFirstTier ==
    formatted # "" =>
        /\ IF count >= 1000000000
           THEN \E k \in 1..2 :
                    /\ formatted = NatToStr(k) \o "B"
                    /\ NearestUnits(count - 1000000000, k - 1, 1000000000)
           ELSE IF count >= 1000000
           THEN \E k \in {count \div 100000, (count \div 100000) + 1} :
                    /\ formatted = OneDecimal(k) \o "M"
                    /\ NearestUnits(count, k, 100000)
           ELSE IF count >= 1000
           THEN \E k \in {count \div 100, (count \div 100) + 1} :
                    /\ formatted = OneDecimal(k) \o "K"
                    /\ NearestUnits(count, k, 100)
           ELSE /\ formatted = NatToStr(count)
                /\ \A i \in 1..Len(formatted) : Char(formatted, i) \in DigitSet
        /\ count = 999 => formatted = "999"
        /\ count = 1000 => formatted = "1.0K"
        /\ count = 999999 => formatted = "1000.0K"
        /\ count = 1000000 => formatted = "1.0M"
        /\ count = 1000000000 => formatted = "1B"

\* the last count of the K tier, shown without rollover to the M tier
NoRolloverBelowMillion == count = 999999 /\ formatted = "1000.0K"

(***************************************************************************)
(* parse_certificate_info on its own (specification SpecCert): owner       *)
(* strings are joined from segments with ",", or are the example of the    *)
(* documentation.                                                          *)
(***************************************************************************)
Segments ==
    <<"CN=Brian Acton", " O=WhatsApp Inc.", " L = Santa Clara ", "C=US", " ST=California",
      "ST=New York", "ST= CA", "ST=Bavaria", "st=Texas", "OU=Engineering", "CN=a=b",
      "=x", "junk", " ">>

NumSegs(s) == IF s = "" THEN 0 ELSE Len(split(s, ","))

AddSegment ==
    /\ NumSegs(text) < MaxSegs
    /\ \E i \in 1..Len(Segments) :
           text' = IF text = "" THEN Segments[i] ELSE text \o "," \o Segments[i]
    /\ cert' = parse_certificate_info(text')
    /\ UNCHANGED <<accepted, count, formatted>>
    /\ UNCHANGED pipelineVars
    /\ UNCHANGED serviceVars

TakeOwner ==
    /\ \E owner \in {"", WhatsAppOwner} : text' = owner
    /\ cert' = parse_certificate_info(text')
    /\ UNCHANGED <<accepted, count, formatted>>
    /\ UNCHANGED pipelineVars
    /\ UNCHANGED serviceVars

NextCert == AddSegment \/ TakeOwner

SpecCert == Init /\ [][NextCert]_vars

\* the trimmed key and value of a segment that contains "="
KeyOf(seg) == strip(SubSeq(seg, 1, Find(seg, "=") - 1))
ValueOf(seg) == strip(SubSeq(seg, Find(seg, "=") + 1, Len(seg)))

\* the value the reference gives the field of key: that of the last segment
\* with this key, "" when there is none
FieldOf(owner, key) ==
    LET segs == split(owner, ",")
        with == {i \in 1..Len(segs) : Find(segs[i], "=") > 0 /\ KeyOf(segs[i]) = key}
    IN IF with = {} THEN ""
       ELSE ValueOf(segs[CHOOSE i \in with : \A j \in with : j <= i])

\* the two-letter abbreviation of a US state name, any other value verbatim
Abbreviated(value) ==
    IF \E e \in {STATE_TO_ABBR[i] : i \in 1..Len(STATE_TO_ABBR)} : e[1] = value
    THEN (CHOOSE e \in {STATE_TO_ABBR[i] : i \in 1..Len(STATE_TO_ABBR)} : e[1] = value)[2]
    ELSE value

\* C9: parse_certificate equals the reference: all five fields start empty;
\* the input is split on ","; each trimmed segment containing "=" is split on
\* its first "=" only, key and value trimmed; CN, O, L, C, ST set
\* developer_cn, organization, local, country, state_city, an ST value of the
\* state table replaced by its abbreviation; other keys and segments without
\* "=" are ignored.  "" gives all-empty fields and the WhatsApp owner string
\* gives state_city "CA".
CertificateMatchesReference ==
    /\ cert.developer_cn = FieldOf(text, "CN")
    /\ cert.organization = FieldOf(text, "O")
    /\ cert.local = FieldOf(text, "L")
    /\ cert.country = FieldOf(text, "C")
    /\ cert.state_city = Abbreviated(FieldOf(text, "ST"))
    /\ DOMAIN cert = {"developer_cn", "organization", "local", "country", "state_city"}
    /\ text = "" => cert = EmptyCert
    /\ text = WhatsAppOwner =>
           cert = [developer_cn |-> "Brian Acton", organization |-> "WhatsApp Inc.",
                   local |-> "Santa Clara", country |-> "US", state_city |-> "CA"]

\* the documented owner string was parsed and its state abbreviated
WhatsAppOwnerParsed == text = WhatsAppOwner /\ cert.state_city = "CA"

\* the recognised keys with the output field each one sets
KeyFields ==
    << <<"CN", "developer_cn">>, <<"O", "organization">>, <<"L", "local">>,
       <<"C", "country">>, <<"ST", "state_city">> >>

\* the recognised key of a segment, "" for a segment that sets no field
RecognisedKey(seg) ==
    IF Find(seg, "=") > 0 /\ \E k \in 1..Len(KeyFields) : KeyFields[k][1] = KeyOf(seg)
    THEN KeyOf(seg)
    ELSE ""

\* the segments joined with ","
RECURSIVE JoinSegments(_)
JoinSegments(segs) ==
    IF Len(segs) = 1 THEN segs[1]
    ELSE segs[1] \o "," \o JoinSegments(Tail(segs))

\* the segments with those at i and i + 1 exchanged
SwapAt(segs, i) ==
    [k \in 1..Len(segs) |-> IF k = i THEN segs[i + 1] ELSE IF k = i + 1 THEN segs[i] ELSE segs[k]]

\* C18: when several segments of the owner string carry the same recognised
\* key, the field holds the value of the last of them in input order (an ST
\* value abbreviated by the state table); and exchanging two neighbouring
\* segments that do not carry the same recognised key changes no output field.
LastSegmentOfAKeyWins ==
    LET segs == split(text, ",")
    IN /\ \A k \in 1..Len(KeyFields) :
              LET with == {i \in 1..Len(segs) : RecognisedKey(segs[i]) = KeyFields[k][1]}
                  last == CHOOSE i \in with : \A j \in with : j <= i
              IN Cardinality(with) >= 2 =>
                     cert[KeyFields[k][2]] = IF KeyFields[k][1] = "ST"
                                             THEN Abbreviated(ValueOf(segs[last]))
                                             ELSE ValueOf(segs[last])
       /\ \A i \in 1..(Len(segs) - 1) :
              (RecognisedKey(segs[i]) # RecognisedKey(segs[i + 1]) \/ RecognisedKey(segs[i]) = "") =>
                  parse_certificate_info(JoinSegments(SwapAt(segs, i))) = cert

\* an owner string with two different ST values was parsed and the second kept
LastDuplicateKept == text = "ST=New York,ST=Bavaria" /\ cert.state_city = "Bavaria"

(***************************************************************************)
(* Several clients at once (specification SpecClients).  Each GET /aptoide *)
(* runs one call of the coroutine get_aptoide_package; the calls share the *)
(* module-level objects and nothing else.  conns records what each client  *)
(* sent and what upstream answered to its call, frames what the locals of  *)
(* its call hold.                                                          *)
(***************************************************************************)
\* variant of Frame in which every call keeps its values in the same place
Frame_mut(i) == 1

\* the frame of the call that serves client i: each call has locals of its own
Frame(i) == i

ClientRequests ==
    << [package_name |-> "", has_param |-> FALSE],
       Query("invalid"), Query("com.what"), Query("com.whatsapp") >>

ClientReplies ==
    << Failed(Failures[1]),
       Answered(404, "Not Found"),
       Answered(200, "OK"),
       AnsweredJson(JDict(<< <<"datalist", JNull>> >>)),
       AnsweredJson(ResultBody(JList(<<>>))),
       AnsweredJson(ResultBody(JList(<<Candidates[1]>>))),
       AnsweredJson(ResultBody(JList(<<Candidates[4], Candidates[1]>>))),
       AnsweredJson(ResultBody(JList(<<Candidates[8]>>))) >>

\* a request of client i arrives and a call starts with package_name bound
Arrive ==
    /\ \E i \in Clients :
           /\ conns[i].pc = "idle"
           /\ \E k \in 1..Len(ClientRequests) :
                  /\ conns' = [conns EXCEPT ![i] = [pc |-> "params",
                                                    request |-> ClientRequests[k],
                                                    upstream |-> None,
                                                    response |-> NoResponse]]
                  /\ frames' = [frames EXCEPT ![Frame(i)] = [request |-> ClientRequests[k],
                                                             upstream |-> None]]
    /\ UNCHANGED globals
    /\ UNCHANGED pipelineVars
    /\ UNCHANGED pureVars

\* the parameter validation or one of the endpoint's checks answers client i
TurnAway ==
    /\ \E i \in Clients :
           /\ conns[i].pc = "params"
           /\ frames[Frame(i)].request # None
           /\ LET req == frames[Frame(i)].request
              IN /\ ~ParamAccepted(req) \/ CheckName(req.package_name) # NoResponse
                 /\ conns' = [conns EXCEPT ![i].pc = "done",
                                           ![i].response = IF ~ParamAccepted(req)
                                                           THEN ParamError(req)
                                                           ELSE CheckName(req.package_name)]
    /\ UNCHANGED <<frames, globals>>
    /\ UNCHANGED pipelineVars
    /\ UNCHANGED pureVars

\* the name of client i passes the checks and requests.get produces r
Ask ==
    /\ \E i \in Clients :
           /\ conns[i].pc = "params"
           /\ frames[Frame(i)].request # None
           /\ LET req == frames[Frame(i)].request
              IN ParamAccepted(req) /\ CheckName(req.package_name) = NoResponse
           /\ \E k \in 1..Len(ClientReplies) :
                  /\ conns' = [conns EXCEPT ![i].pc = "scrape",
                                            ![i].upstream = ClientReplies[k]]
                  /\ frames' = [frames EXCEPT ![Frame(i)].upstream = ClientReplies[k]]
    /\ UNCHANGED globals
    /\ UNCHANGED pipelineVars
    /\ UNCHANGED pureVars

\* the rest of the call for client i, up to its response
Answer ==
    /\ \E i \in Clients :
           /\ conns[i].pc = "scrape"
           /\ frames[Frame(i)].request # None
           /\ frames[Frame(i)].upstream # None
           /\ LET package_name == frames[Frame(i)].request.package_name
                  r == frames[Frame(i)].upstream
              IN conns' = [conns EXCEPT ![i].pc = "done",
                                        ![i].response =
                                            EndpointResponse(package_name,
                                                             get_app_details(package_name, r))]
    /\ UNCHANGED <<frames, globals>>
    /\ UNCHANGED pipelineVars
    /\ UNCHANGED pureVars

\* the response of client i is sent and its call is over
Leave ==
    /\ \E i \in Clients :
           /\ conns[i].pc = "done"
           /\ conns' = [conns EXCEPT ![i] = Quiet]
           /\ frames' = [frames EXCEPT ![Frame(i)] = NoFrame]
    /\ UNCHANGED globals
    /\ UNCHANGED pipelineVars
    /\ UNCHANGED pureVars

NextClients == Arrive \/ TurnAway \/ Ask \/ Answer \/ Leave

SpecClients == Init /\ [][NextClients]_vars

\* the response to a request that is served with no other request around
Alone(req, reply) ==
    IF ~ParamAccepted(req) THEN ParamError(req)
    ELSE IF CheckName(req.package_name) # NoResponse THEN CheckName(req.package_name)
    ELSE EndpointResponse(req.package_name, get_app_details(req.package_name, reply))

\* C13: in every interleaving of concurrent requests, the response to each
\* request is the one it would get when run alone, a function of its own
\* package_name and its own upstream answer, and the module-level scraper
\* instance and state table are never modified.
RequestsAreIndependent ==
    /\ globals = ModuleGlobals
    /\ \A i \in Clients :
           conns[i].pc = "done" =>
               conns[i].response = Alone(conns[i].request, conns[i].upstream)

\* two requests for different names were in progress together, one answered
\* 200 and the other 404
TwoClientsAnsweredApart ==
    /\ conns[1].pc = "done"
    /\ conns[2].pc = "done"
    /\ conns[1].request.package_name = "com.whatsapp"
    /\ conns[2].request.package_name = "com.what"
    /\ conns[1].response.status = 200
    /\ conns[2].response.status = 404

====
